---- MODULE Spec2Model ----
(***************************************************************************)
(* Model of the request/session dispatch layer of Nocturne (src/app.py):   *)
(* the header parser, the REST and GraphQL executors and the WebSocket     *)
(* session held by RequestWorkbenchApp.                                    *)
(*                                                                         *)
(* Texts are sequences of one-character strings.  Log lines are records    *)
(* [tag, text]: the tag names the f-string written to the RichLog and the  *)
(* text is what the f-string interpolates.                                 *)
(***************************************************************************)
EXTENDS Integers, Sequences, FiniteSets, TLC

(* ------------------------------ bounds --------------------------------- *)
\* longest header block drawn for a REST / GraphQL invocation
MaxHdrLen == 2
\* longest variables text (in JSON tokens) drawn for a GraphQL invocation
MaxVarLen == 2
\* UI events (button presses, unmount) posted over a run
MaxPosts == 3
\* UI events waiting in the message queue at once
MaxQueue == 1
\* WebSocket handshakes the remote side accepts over a run
MaxConns == 2
\* inbound WebSocket messages delivered over a run
MaxRecv == 1
\* inbound messages delivered in a run of a streaming session
MaxStream == 2
\* longest header block handed to parse_headers on its own
MaxBlockLen == 4

(* ------------------------------ texts ---------------------------------- *)
\* the None held by _ws_connection and _ws_receiver (handles are 1, 2, ...)
None == 0

Whitespace == {" ", "\n"}

RECURSIVE TextsUpTo(_, _)
TextsUpTo(alphabet, n) ==
    IF n = 0 THEN {<<>>}
    ELSE LET shorter == TextsUpTo(alphabet, n - 1)
         IN  shorter \cup {Append(s, c) : s \in shorter, c \in alphabet}

\* str.strip(): drop leading and trailing whitespace
RECURSIVE LStrip(_)
LStrip(s) ==
    IF s # <<>> /\ Head(s) \in Whitespace THEN LStrip(Tail(s)) ELSE s

RECURSIVE RStrip(_)
RStrip(s) ==
    IF s # <<>> /\ s[Len(s)] \in Whitespace
    THEN RStrip(SubSeq(s, 1, Len(s) - 1))
    ELSE s

Strip(s) == RStrip(LStrip(s))

\* index of the first occurrence of c in s, 0 when there is none
RECURSIVE IndexFrom(_, _, _)
IndexFrom(s, c, i) ==
    IF i > Len(s) THEN 0
    ELSE IF s[i] = c THEN i
    ELSE IndexFrom(s, c, i + 1)

IndexOf(s, c) == IndexFrom(s, c, 1)

\* str.splitlines(): split at line breaks; a final line break opens no line
RECURSIVE SplitLines(_)
SplitLines(s) ==
    IF s = <<>> THEN <<>>
    ELSE LET i == IndexOf(s, "\n")
         IN  IF i = 0 THEN <<s>>
             ELSE <<SubSeq(s, 1, i - 1)>> \o SplitLines(SubSeq(s, i + 1, Len(s)))

(* --------------------------- parse_headers ----------------------------- *)
\* an insertion that keeps the value a key already has
PutHeaderKeepsFirst(headers, key, value) ==
    [k \in (DOMAIN headers) \cup {key} |->
        IF k \in DOMAIN headers THEN headers[k] ELSE value]

\* headers[key.strip()] = value.strip(): a later key overwrites
PutHeader(headers, key, value) ==
    [k \in (DOMAIN headers) \cup {key} |->
        IF k = key THEN value ELSE headers[k]]

EmptyHeaders == [k \in {} |-> <<>>]

\* the loop citing the offending line with its whitespace trimmed
RECURSIVE ParseLinesCitesTrimmed(_, _)
ParseLinesCitesTrimmed(lines, headers) ==
    IF lines = <<>> THEN [ok |-> TRUE, headers |-> headers, line |-> <<>>]
    ELSE LET line == Head(lines)
             colon == IndexOf(line, ":")
         IN  IF Strip(line) = <<>>
             THEN ParseLinesCitesTrimmed(Tail(lines), headers)
             ELSE IF colon = 0
             THEN [ok |-> FALSE, headers |-> EmptyHeaders, line |-> Strip(line)]
             ELSE ParseLinesCitesTrimmed(Tail(lines),
                     PutHeader(headers,
                               Strip(SubSeq(line, 1, colon - 1)),
                               Strip(SubSeq(line, colon + 1, Len(line)))))

\* the loop of parse_headers over the lines still to read
RECURSIVE ParseLines(_, _)
ParseLines(lines, headers) ==
    IF lines = <<>> THEN [ok |-> TRUE, headers |-> headers, line |-> <<>>]
    ELSE LET line == Head(lines)
             colon == IndexOf(line, ":")
         IN  IF Strip(line) = <<>> THEN ParseLines(Tail(lines), headers)
             ELSE IF colon = 0
             THEN [ok |-> FALSE, headers |-> EmptyHeaders, line |-> line]
             ELSE ParseLines(Tail(lines),
                     PutHeader(headers,
                               Strip(SubSeq(line, 1, colon - 1)),
                               Strip(SubSeq(line, colon + 1, Len(line)))))

\* parse_headers(raw): ok with the mapping, or the ValueError citing the line
parse_headers(raw) == ParseLines(SplitLines(raw), EmptyHeaders)

(* ------------------------------ inputs --------------------------------- *)
\* what the operator may type into the URL and query fields
UrlTexts == {<<>>, <<" ">>, <<"a">>, <<" ", "a">>}
\* what the operator may type into the WebSocket header block
WsHeaderTexts == {<<>>, <<"\n">>, <<"a", ":", "b">>, <<"a">>}
\* what the operator may type into the WebSocket message field
MsgTexts == {<<>>, <<" ">>, <<"a">>}
\* what the remote end may send
InTexts == {<<"a">>, <<"b">>}
\* close codes for which the connection iterator ends normally / raises
CleanCodes == {"1000"}
ErrorCodes == {"1006"}

ConnIds == 1 .. MaxConns
Buttons == {"ws_connect", "ws_disconnect", "ws_send"}

(* ------------------------------- state --------------------------------- *)
VARIABLES
    ws_connection,  \* self._ws_connection: None or the connection held
    ws_receiver,    \* self._ws_receiver: None or the receive task held
    conn_state,     \* per connection: none, open, local_closed, remote_closed
    close_code,     \* per connection: the code it was closed with
    task_state,     \* per receive task: none, created, running, cancelled, done
    rx_conn,        \* per receive task: the connection it iterates over
    pc,             \* where the UI handler in progress is suspended
    h_op,           \* the handler in progress
    h_url,          \* its local url
    h_msg,          \* its local message
    h_conn,         \* the connection its network call was made on
    pending,        \* UI events queued for the app's message pump
    posts,          \* UI events posted so far
    app,            \* mounted, unmounting, unmounted
    log,            \* lines of the #ws_log RichLog
    status,         \* StatusIndicator.status
    wire_out,       \* messages written to the network
    recvd,          \* inbound messages delivered so far, in wire order
    escaped,        \* an exception left a handler uncaught
    http,           \* the REST / GraphQL invocation in progress
    parser          \* a call of parse_headers: its argument and its outcome

ws_vars == <<ws_connection, ws_receiver, conn_state, close_code, task_state,
             rx_conn, pc, h_op, h_url, h_msg, h_conn, pending, posts, app,
             log, status, wire_out, recvd, escaped>>

vars == <<ws_vars, http, parser>>

Line(tag, text) == [tag |-> tag, text |-> text]

\* no REST / GraphQL invocation has been made
HttpIdle ==
    [pc |-> "idle", kind |-> "none", url |-> <<>>, query |-> <<>>,
     headers_raw |-> <<>>, variables_raw |-> <<>>, requests |-> 0,
     results |-> 0, errors |-> <<>>, payload |-> <<>>]

\* RequestWorkbenchApp.__init__ and the freshly mounted widgets
InitWs ==
    /\ ws_connection = None
    /\ ws_receiver = None
    /\ conn_state = [c \in ConnIds |-> "none"]
    /\ close_code = [c \in ConnIds |-> "none"]
    /\ task_state = [c \in ConnIds |-> "none"]
    /\ rx_conn = [c \in ConnIds |-> None]
    /\ pc = "idle"
    /\ h_op = "none"
    /\ h_url = <<>>
    /\ h_msg = <<>>
    /\ h_conn = None
    /\ pending = <<>>
    /\ posts = 0
    /\ app = "mounted"
    /\ log = <<>>
    /\ status = "Ready"
    /\ wire_out = <<>>
    /\ recvd = <<>>
    /\ escaped = FALSE

\* no call of parse_headers on its own is in progress
ParserIdle == [pc |-> "idle", raw |-> <<>>, ok |-> TRUE,
               headers |-> EmptyHeaders, line |-> <<>>]

Init == InitWs /\ http = HttpIdle /\ parser = ParserIdle

(* --------------------------- UI event queue ---------------------------- *)
\* A button press or the unmount event reaches the app.  Textual queues the
\* message; on_button_pressed / on_unmount run one at a time, each awaited
\* to completion before the next message is taken.
Post(ev) ==
    /\ app = "mounted"
    /\ posts < MaxPosts
    /\ Len(pending) < MaxQueue
    /\ pending' = Append(pending, ev)
    /\ posts' = posts + 1
    /\ app' = IF ev = "unmount" THEN "unmounting" ELSE app
    /\ UNCHANGED <<ws_connection, ws_receiver, conn_state, close_code,
                   task_state, rx_conn, pc, h_op, h_url, h_msg, h_conn, log,
                   status, wire_out, recvd, escaped, http, parser>>

\* the message pump is free and ev is the next message
Dispatching(ev) ==
    /\ pc = "idle"
    /\ pending # <<>>
    /\ Head(pending) = ev

\* connection c has been closed, by this end or by the remote end
Closed(c) == conn_state[c] \in {"local_closed", "remote_closed"}

\* asyncio runs the callbacks made ready by create_task() and cancel() before
\* it polls for I/O: no network call completes while such a task is waiting
NoReadyTask == \A t \in ConnIds : task_state[t] \notin {"created", "cancelled"}

FreeConns == {c \in ConnIds : conn_state[c] = "none"}
NewConn == CHOOSE c \in FreeConns : \A d \in FreeConns : c <= d

(* ------------------------- _connect_websocket -------------------------- *)
\* the checks without the test of the handle held
ConnectVerdictNoGuard(url, headers_raw, conn) ==
    IF url = <<>> THEN "no_url"
    ELSE IF ~parse_headers(headers_raw).ok THEN "hdr_error"
    ELSE "connect"

\* the checks of _connect_websocket, in the order the code makes them
ConnectVerdict(url, headers_raw, conn) ==
    IF url = <<>> THEN "no_url"
    ELSE IF conn # None THEN "already"
    ELSE IF ~parse_headers(headers_raw).ok THEN "hdr_error"
    ELSE "connect"

\* _connect_websocket up to its await of websockets.connect()
ConnectWebsocket ==
    /\ Dispatching("ws_connect")
    /\ \E url_raw \in UrlTexts, headers_raw \in WsHeaderTexts :
         LET url == Strip(url_raw)
             verdict == ConnectVerdict(url, headers_raw, ws_connection)
         IN  /\ h_url' = url
             /\ IF verdict = "connect"
                THEN /\ status' = "connecting"
                     /\ log' = <<>>
                     /\ pc' = "connecting"
                ELSE /\ log' = Append(log,
                            Line(verdict, IF verdict = "hdr_error"
                                          THEN parse_headers(headers_raw).line
                                          ELSE <<>>))
                     /\ UNCHANGED <<status, pc>>
    /\ pending' = Tail(pending)
    /\ h_op' = "connect"
    /\ UNCHANGED <<ws_connection, ws_receiver, conn_state, close_code,
                   task_state, rx_conn, h_msg, h_conn, posts, app, wire_out,
                   recvd, escaped, http, parser>>

\* a handshake that completes while a cancelled receive task is still
\* waiting for its turn
HandshakeOkOvertakes ==
    /\ pc = "connecting"
    /\ FreeConns # {}
    /\ LET c == NewConn
       IN  /\ ws_connection' = c
           /\ conn_state' = [conn_state EXCEPT ![c] = "open"]
           /\ ws_receiver' = c
           /\ task_state' = [task_state EXCEPT ![c] = "created"]
    /\ status' = "connected"
    /\ log' = Append(log, Line("connected", h_url))
    /\ pc' = "idle"
    /\ UNCHANGED <<close_code, rx_conn, h_op, h_url, h_msg, h_conn, pending,
                   posts, app, wire_out, recvd, escaped, http, parser>>

\* websockets.connect() returns: the handle is stored and the receive task
\* is created, with no suspension point in between
HandshakeOk ==
    /\ pc = "connecting"
    /\ NoReadyTask
    /\ FreeConns # {}
    /\ LET c == NewConn
       IN  /\ ws_connection' = c
           /\ conn_state' = [conn_state EXCEPT ![c] = "open"]
           /\ ws_receiver' = c
           /\ task_state' = [task_state EXCEPT ![c] = "created"]
    /\ status' = "connected"
    /\ log' = Append(log, Line("connected", h_url))
    /\ pc' = "idle"
    /\ UNCHANGED <<close_code, rx_conn, h_op, h_url, h_msg, h_conn, pending,
                   posts, app, wire_out, recvd, escaped, http, parser>>

\* websockets.connect() raises and nothing is written to the log
HandshakeFailSilent ==
    /\ pc = "connecting"
    /\ NoReadyTask
    /\ status' = "connect_failed"
    /\ ws_connection' = None
    /\ pc' = "idle"
    /\ UNCHANGED <<log, ws_receiver, conn_state, close_code, task_state,
                   rx_conn, h_op, h_url, h_msg, h_conn, pending, posts, app,
                   wire_out, recvd, escaped, http, parser>>

\* websockets.connect() raises
HandshakeFail ==
    /\ pc = "connecting"
    /\ NoReadyTask
    /\ status' = "connect_failed"
    /\ log' = Append(log, Line("conn_error", <<>>))
    /\ ws_connection' = None
    /\ pc' = "idle"
    /\ UNCHANGED <<ws_receiver, conn_state, close_code, task_state, rx_conn,
                   h_op, h_url, h_msg, h_conn, pending, posts, app, wire_out,
                   recvd, escaped, http, parser>>

(* --------------------- _receive_websocket_messages --------------------- *)
\* a finally block that forgets the task reference
ReceiverFinallyKeepsTask(t) ==
    /\ ws_connection' = None
    /\ ws_receiver' = ws_receiver
    /\ status' = "disconnected"
    /\ task_state' = [task_state EXCEPT ![t] = "done"]

\* the finally block of the receive loop
ReceiverFinally(t) ==
    /\ ws_connection' = None
    /\ ws_receiver' = None
    /\ status' = "disconnected"
    /\ task_state' = [task_state EXCEPT ![t] = "done"]

\* the task's first step: the assert, then the iteration over the handle.
\* A failed assert is raised before the try: the task ends with no cleanup.
ReceiverStart(t) ==
    /\ task_state[t] = "created"
    /\ IF ws_connection = None
       THEN /\ task_state' = [task_state EXCEPT ![t] = "done"]
            /\ UNCHANGED rx_conn
       ELSE /\ task_state' = [task_state EXCEPT ![t] = "running"]
            /\ rx_conn' = [rx_conn EXCEPT ![t] = ws_connection]
    /\ UNCHANGED <<ws_connection, ws_receiver, conn_state, close_code, pc,
                   h_op, h_url, h_msg, h_conn, pending, posts, app, log,
                   status, wire_out, recvd, escaped, http, parser>>

\* a loop that writes the message above the lines already in the log
ReceiveMessagePrepends(t, limit) ==
    /\ task_state[t] = "running"
    /\ conn_state[rx_conn[t]] = "open"
    /\ Len(recvd) < limit
    /\ \E m \in InTexts :
          /\ log' = <<Line("received", m)>> \o log
          /\ recvd' = Append(recvd, [conn |-> rx_conn[t], text |-> m])
    /\ UNCHANGED <<ws_connection, ws_receiver, conn_state, close_code,
                   task_state, rx_conn, pc, h_op, h_url, h_msg, h_conn,
                   pending, posts, app, status, wire_out, escaped, http, parser>>

\* one turn of the async for: the transport delivers a message, at most
\* limit of them in a run, and the loop writes it to the log
ReceiveMessageUpTo(t, limit) ==
    /\ task_state[t] = "running"
    /\ conn_state[rx_conn[t]] = "open"
    /\ Len(recvd) < limit
    /\ \E m \in InTexts :
          /\ log' = Append(log, Line("received", m))
          /\ recvd' = Append(recvd, [conn |-> rx_conn[t], text |-> m])
    /\ UNCHANGED <<ws_connection, ws_receiver, conn_state, close_code,
                   task_state, rx_conn, pc, h_op, h_url, h_msg, h_conn,
                   pending, posts, app, status, wire_out, escaped, http, parser>>

ReceiveMessage(t) == ReceiveMessageUpTo(t, MaxRecv)

\* the connection was closed with code 1000 or 1001: the connection's
\* iterator is exhausted and the async for ends without an exception
ReceiveClosedOk(t) ==
    /\ task_state[t] = "running"
    /\ Closed(rx_conn[t])
    /\ close_code[rx_conn[t]] \in CleanCodes
    /\ ReceiverFinally(t)
    /\ UNCHANGED <<conn_state, close_code, rx_conn, pc, h_op, h_url, h_msg,
                   h_conn, pending, posts, app, log, wire_out, recvd, escaped,
                   http, parser>>

\* the connection was closed with another code: ConnectionClosed is raised
ReceiveClosedError(t) ==
    /\ task_state[t] = "running"
    /\ Closed(rx_conn[t])
    /\ close_code[rx_conn[t]] \in ErrorCodes
    /\ log' = Append(log, Line("closed", <<close_code[rx_conn[t]]>>))
    /\ ReceiverFinally(t)
    /\ UNCHANGED <<conn_state, close_code, rx_conn, pc, h_op, h_url, h_msg,
                   h_conn, pending, posts, app, wire_out, recvd, escaped,
                   http, parser>>

\* any other exception in the loop: logged, and the handle is dropped
\* without a close() on the connection
ReceiveError(t) ==
    /\ task_state[t] = "running"
    /\ conn_state[rx_conn[t]] = "open"
    /\ log' = Append(log, Line("rx_error", <<>>))
    /\ ReceiverFinally(t)
    /\ UNCHANGED <<conn_state, close_code, rx_conn, pc, h_op, h_url, h_msg,
                   h_conn, pending, posts, app, wire_out, recvd, escaped,
                   http, parser>>

\* a loop whose handler for Exception also caught the cancellation
ReceiveCancelledLogsError(t) ==
    /\ task_state[t] = "cancelled"
    /\ log' = Append(log, Line("rx_error", <<>>))
    /\ ReceiverFinally(t)
    /\ UNCHANGED <<conn_state, close_code, rx_conn, pc, h_op, h_url, h_msg,
                   h_conn, pending, posts, app, wire_out, recvd, escaped,
                   http, parser>>

\* cancel() was called on the task: CancelledError passes both except
\* clauses (it is no Exception) and only the finally block runs
ReceiveCancelled(t) ==
    /\ task_state[t] = "cancelled"
    /\ ReceiverFinally(t)
    /\ UNCHANGED <<conn_state, close_code, rx_conn, pc, h_op, h_url, h_msg,
                   h_conn, pending, posts, app, log, wire_out, recvd, escaped,
                   http, parser>>

\* the remote end closes connection c with a close code
RemoteClose(c, code) ==
    /\ conn_state[c] = "open"
    /\ conn_state' = [conn_state EXCEPT ![c] = "remote_closed"]
    /\ close_code' = [close_code EXCEPT ![c] = code]
    /\ UNCHANGED <<ws_connection, ws_receiver, task_state, rx_conn, pc, h_op,
                   h_url, h_msg, h_conn, pending, posts, app, log, status,
                   wire_out, recvd, escaped, http, parser>>

(* ------------------------ _disconnect_websocket ------------------------ *)
\* Task.cancel(): a task suspended in its loop gets CancelledError at its
\* next step; a task that never started never runs; a finished task is left
Cancel(st) ==
    IF st = "running" THEN "cancelled"
    ELSE IF st = "created" THEN "done"
    ELSE st

\* _disconnect_websocket up to its await of close(): the closing handshake
\* is started on the connection held (a local close carries code 1000)
CloseBegin(op) ==
    /\ h_op' = op
    /\ h_conn' = ws_connection
    /\ pc' = "closing"
    /\ IF conn_state[ws_connection] = "open"
       THEN /\ conn_state' = [conn_state EXCEPT
                                 ![ws_connection] = "local_closed"]
            /\ close_code' = [close_code EXCEPT ![ws_connection] = "1000"]
       ELSE UNCHANGED <<conn_state, close_code>>
    /\ UNCHANGED <<log, app>>

\* the Disconnect button without the early return: with no handle held it
\* still reports a disconnect
DisconnectWebsocketNoGuard ==
    /\ Dispatching("ws_disconnect")
    /\ pending' = Tail(pending)
    /\ IF ws_connection = None
       THEN /\ log' = Append(log, Line("disconnected", <<>>))
            /\ h_op' = "disconnect"
            /\ UNCHANGED <<conn_state, close_code, pc, h_conn, app>>
       ELSE CloseBegin("disconnect")
    /\ UNCHANGED <<ws_connection, ws_receiver, task_state, rx_conn, h_url,
                   h_msg, posts, status, wire_out, recvd, escaped, http, parser>>

\* the Disconnect button
DisconnectWebsocket ==
    /\ Dispatching("ws_disconnect")
    /\ pending' = Tail(pending)
    /\ IF ws_connection = None
       THEN /\ log' = Append(log, Line("no_active", <<>>))
            /\ h_op' = "disconnect"
            /\ UNCHANGED <<conn_state, close_code, pc, h_conn, app>>
       ELSE CloseBegin("disconnect")
    /\ UNCHANGED <<ws_connection, ws_receiver, task_state, rx_conn, h_url,
                   h_msg, posts, status, wire_out, recvd, escaped, http, parser>>

\* on_unmount: disconnects when a handle is held
Shutdown ==
    /\ Dispatching("unmount")
    /\ pending' = Tail(pending)
    /\ IF ws_connection = None
       THEN /\ app' = "unmounted"
            /\ h_op' = "shutdown"
            /\ UNCHANGED <<conn_state, close_code, pc, h_conn, log>>
       ELSE CloseBegin("shutdown")
    /\ UNCHANGED <<ws_connection, ws_receiver, task_state, rx_conn, h_url,
                   h_msg, posts, status, wire_out, recvd, escaped, http, parser>>

\* the finally block of _disconnect_websocket
DisconnectFinally ==
    /\ ws_connection' = None
    /\ task_state' = IF ws_receiver # None
                     THEN [task_state EXCEPT
                              ![ws_receiver] = Cancel(task_state[ws_receiver])]
                     ELSE task_state
    /\ status' = "disconnected"
    /\ log' = Append(log, Line("disconnected", <<>>))

\* the handler in progress returns to the message pump
HandlerEnds ==
    /\ pc' = "idle"
    /\ app' = IF h_op = "shutdown" THEN "unmounted" ELSE app

\* close() returns
CloseReturn ==
    /\ pc = "closing"
    /\ NoReadyTask
    /\ DisconnectFinally
    /\ HandlerEnds
    /\ UNCHANGED <<ws_receiver, conn_state, close_code, rx_conn, h_op, h_url,
                   h_msg, h_conn, pending, posts, wire_out, recvd, escaped,
                   http, parser>>

\* close() raises and the cleanup is skipped
CloseRaiseNoCleanup ==
    /\ pc = "closing"
    /\ NoReadyTask
    /\ HandlerEnds
    /\ escaped' = TRUE
    /\ UNCHANGED <<ws_connection, task_state, status, log, ws_receiver,
                   conn_state, close_code, rx_conn, h_op, h_url, h_msg,
                   h_conn, pending, posts, wire_out, recvd, http, parser>>

\* close() raises: try/finally has no except clause, so after the finally
\* block the exception leaves _disconnect_websocket and its caller
CloseRaise ==
    /\ pc = "closing"
    /\ NoReadyTask
    /\ DisconnectFinally
    /\ HandlerEnds
    /\ escaped' = TRUE
    /\ UNCHANGED <<ws_receiver, conn_state, close_code, rx_conn, h_op, h_url,
                   h_msg, h_conn, pending, posts, wire_out, recvd, http, parser>>

(* ----------------------- _send_websocket_message ----------------------- *)
\* the checks without the test for an empty message
SendVerdictNoEmptyCheck(message, conn) ==
    IF conn = None THEN "not_connected" ELSE "send"

\* the checks of _send_websocket_message, in the order the code makes them
SendVerdict(message, conn) ==
    IF conn = None THEN "not_connected"
    ELSE IF message = <<>> THEN "empty_msg"
    ELSE "send"

\* _send_websocket_message up to its await of send()
SendWebsocketMessage ==
    /\ Dispatching("ws_send")
    /\ pending' = Tail(pending)
    /\ \E message \in MsgTexts :
         LET verdict == SendVerdict(message, ws_connection)
         IN  /\ h_msg' = message
             /\ IF verdict = "send"
                THEN /\ pc' = "sending"
                     /\ h_conn' = ws_connection
                     /\ UNCHANGED log
                ELSE /\ log' = Append(log, Line(verdict, <<>>))
                     /\ UNCHANGED <<pc, h_conn>>
    /\ h_op' = "send"
    /\ UNCHANGED <<ws_connection, ws_receiver, conn_state, close_code,
                   task_state, rx_conn, h_url, posts, app, status, wire_out,
                   recvd, escaped, http, parser>>

\* send() returns: the message is on the wire and is logged as sent
SendOk ==
    /\ pc = "sending"
    /\ NoReadyTask
    /\ conn_state[h_conn] = "open"
    /\ wire_out' = Append(wire_out, h_msg)
    /\ log' = Append(log, Line("sent", h_msg))
    /\ pc' = "idle"
    /\ UNCHANGED <<ws_connection, ws_receiver, conn_state, close_code,
                   task_state, rx_conn, h_op, h_url, h_msg, h_conn, pending,
                   posts, app, status, recvd, escaped, http, parser>>

\* send() raises and the sender tears the session down
SendFailTeardown ==
    /\ pc = "sending"
    /\ NoReadyTask
    /\ log' = Append(log, Line("send_error", <<>>))
    /\ pc' = "idle"
    /\ ws_connection' = None
    /\ UNCHANGED <<ws_receiver, conn_state, close_code, task_state, rx_conn,
                   h_op, h_url, h_msg, h_conn, pending, posts, app, status,
                   wire_out, recvd, escaped, http, parser>>

\* send() raises: the error is logged
SendFail ==
    /\ pc = "sending"
    /\ NoReadyTask
    /\ log' = Append(log, Line("send_error", <<>>))
    /\ pc' = "idle"
    /\ UNCHANGED <<ws_connection, ws_receiver, conn_state, close_code,
                   task_state, rx_conn, h_op, h_url, h_msg, h_conn, pending,
                   posts, app, status, wire_out, recvd, escaped, http, parser>>

(* --------------------- the WebSocket session system -------------------- *)
Next ==
    \/ \E ev \in Buttons \cup {"unmount"} : Post(ev)
    \/ ConnectWebsocket
    \/ HandshakeOk
    \/ HandshakeFail
    \/ DisconnectWebsocket
    \/ Shutdown
    \/ CloseReturn
    \/ CloseRaise
    \/ SendWebsocketMessage
    \/ SendOk
    \/ SendFail
    \/ \E t \in ConnIds : ReceiverStart(t)
    \/ \E t \in ConnIds : ReceiveMessage(t)
    \/ \E t \in ConnIds : ReceiveClosedOk(t)
    \/ \E t \in ConnIds : ReceiveClosedError(t)
    \/ \E t \in ConnIds : ReceiveError(t)
    \/ \E t \in ConnIds : ReceiveCancelled(t)
    \/ \E c \in ConnIds, code \in CleanCodes \cup ErrorCodes : RemoteClose(c, code)

Spec == Init /\ [][Next]_vars

\* The event loop runs a receive task that can take a step (its start, the
\* end of its iteration on a closed connection, a pending cancellation), and
\* close() ends, by its own timeout at the latest.
FairSpec ==
    /\ Spec
    /\ \A t \in ConnIds :
          /\ WF_vars(ReceiverStart(t))
          /\ WF_vars(ReceiveClosedOk(t))
          /\ WF_vars(ReceiveClosedError(t))
          /\ WF_vars(ReceiveCancelled(t))
    /\ WF_vars(CloseReturn \/ CloseRaise)

\* The same program on a transport that delivers up to MaxStream inbound
\* messages in a run.
NextStream ==
    \/ \E ev \in Buttons \cup {"unmount"} : Post(ev)
    \/ ConnectWebsocket
    \/ HandshakeOk
    \/ HandshakeFail
    \/ DisconnectWebsocket
    \/ Shutdown
    \/ CloseReturn
    \/ CloseRaise
    \/ SendWebsocketMessage
    \/ SendOk
    \/ SendFail
    \/ \E t \in ConnIds : ReceiverStart(t)
    \/ \E t \in ConnIds : ReceiveMessageUpTo(t, MaxStream)
    \/ \E t \in ConnIds : ReceiveClosedOk(t)
    \/ \E t \in ConnIds : ReceiveClosedError(t)
    \/ \E t \in ConnIds : ReceiveError(t)
    \/ \E t \in ConnIds : ReceiveCancelled(t)
    \/ \E c \in ConnIds, code \in CleanCodes \cup ErrorCodes : RemoteClose(c, code)

SpecStream == Init /\ [][NextStream]_vars

(* ------------------------- REST and GraphQL ---------------------------- *)
\* what the operator may type into a REST / GraphQL header block
HttpHeaderTexts == TextsUpTo({"a", " ", ":", "\n"}, MaxHdrLen)
\* what the operator may type into the variables field, in JSON tokens
JsonTokens == {" ", "null", "{", "}"}
VariablesTexts == TextsUpTo(JsonTokens, MaxVarLen)

\* json.loads on the token texts drawn: whitespace around a value is
\* skipped; the values are null and the empty object; the rest is an error
JsonLoads(raw) ==
    LET body == Strip(raw)
    IN  IF body = <<"null">> THEN [ok |-> TRUE, value |-> <<"null">>]
        ELSE IF /\ Len(body) >= 2
                /\ body[1] = "{"
                /\ body[Len(body)] = "}"
                /\ \A i \in 2 .. Len(body) - 1 : body[i] = " "
        THEN [ok |-> TRUE, value |-> <<"{", "}">>]
        ELSE [ok |-> FALSE, value |-> <<>>]

\* Python's None as the result of json.loads("null")
JsonNone == <<"null">>

\* the checks of _send_rest_request, in the order the code makes them
RestVerdict(url, headers_raw) ==
    IF url = <<>> THEN "no_url"
    ELSE IF ~parse_headers(headers_raw).ok THEN "hdr_error"
    ELSE "request"

\* the checks with json.loads run on the variables text whatever it holds
GraphqlVerdictAlwaysDecodes(url, query, headers_raw, variables_raw) ==
    IF url = <<>> THEN "no_url"
    ELSE IF query = <<>> THEN "no_query"
    ELSE IF ~parse_headers(headers_raw).ok THEN "hdr_error"
    ELSE IF ~JsonLoads(variables_raw).ok THEN "json_error"
    ELSE "request"

\* the checks with the variables decoded before the headers are parsed
GraphqlVerdictVariablesFirst(url, query, headers_raw, variables_raw) ==
    IF url = <<>> THEN "no_url"
    ELSE IF query = <<>> THEN "no_query"
    ELSE IF Strip(variables_raw) # <<>> /\ ~JsonLoads(variables_raw).ok
    THEN "json_error"
    ELSE IF ~parse_headers(headers_raw).ok THEN "hdr_error"
    ELSE "request"

\* the checks of _send_graphql_request, in the order the code makes them
GraphqlVerdict(url, query, headers_raw, variables_raw) ==
    IF url = <<>> THEN "no_url"
    ELSE IF query = <<>> THEN "no_query"
    ELSE IF ~parse_headers(headers_raw).ok THEN "hdr_error"
    ELSE IF Strip(variables_raw) # <<>> /\ ~JsonLoads(variables_raw).ok
    THEN "json_error"
    ELSE "request"

\* payload = {"query": query}, plus "variables" when variables is not None
GraphqlPayload(query, variables_raw) ==
    LET variables == IF Strip(variables_raw) # <<>>
                     THEN JsonLoads(variables_raw).value
                     ELSE JsonNone
    IN  IF variables # JsonNone
        THEN [k \in {"query", "variables"} |->
                IF k = "query" THEN query ELSE variables]
        ELSE [k \in {"query"} |-> query]

\* the text handed to update_with_error for a failed check
ErrorLine(verdict, headers_raw) ==
    Line(verdict, IF verdict = "hdr_error"
                  THEN parse_headers(headers_raw).line
                  ELSE <<>>)

\* _send_rest_request up to its await of client.request()
SendRestRequest ==
    /\ http.pc = "idle"
    /\ \E url_raw \in UrlTexts, headers_raw \in HttpHeaderTexts :
         LET url == Strip(url_raw)
             verdict == RestVerdict(url, headers_raw)
             call == [HttpIdle EXCEPT !.kind = "rest", !.url = url,
                                      !.headers_raw = headers_raw]
         IN  http' = IF verdict = "request"
                     THEN [call EXCEPT !.pc = "awaiting", !.requests = 1]
                     ELSE [call EXCEPT !.pc = "done",
                              !.errors = <<ErrorLine(verdict, headers_raw)>>]
    /\ UNCHANGED <<ws_vars, parser>>

\* _send_graphql_request up to its await of client.post()
SendGraphqlRequest ==
    /\ http.pc = "idle"
    /\ \E url_raw \in UrlTexts, query_raw \in UrlTexts,
          headers_raw \in HttpHeaderTexts, variables_raw \in VariablesTexts :
         LET url == Strip(url_raw)
             query == Strip(query_raw)
             verdict == GraphqlVerdict(url, query, headers_raw, variables_raw)
             call == [HttpIdle EXCEPT !.kind = "graphql", !.url = url,
                                      !.query = query,
                                      !.headers_raw = headers_raw,
                                      !.variables_raw = variables_raw]
         IN  http' = IF verdict = "request"
                     THEN [call EXCEPT !.pc = "awaiting", !.requests = 1,
                              !.payload = GraphqlPayload(query, variables_raw)]
                     ELSE [call EXCEPT !.pc = "done",
                              !.errors = <<ErrorLine(verdict, headers_raw)>>]
    /\ UNCHANGED <<ws_vars, parser>>

\* the exchange completes: update_with_response with the RestResponse
HttpResponse ==
    /\ http.pc = "awaiting"
    /\ http' = [http EXCEPT !.pc = "done", !.results = http.results + 1]
    /\ UNCHANGED <<ws_vars, parser>>

\* the request raises and only the status line says so
HttpTransportErrorSilent ==
    /\ http.pc = "awaiting"
    /\ http' = [http EXCEPT !.pc = "done"]
    /\ UNCHANGED <<ws_vars, parser>>

\* the request raises: update_with_error with the exception's text
HttpTransportError ==
    /\ http.pc = "awaiting"
    /\ http' = [http EXCEPT !.pc = "done",
                   !.errors = Append(http.errors, Line("transport", <<>>))]
    /\ UNCHANGED <<ws_vars, parser>>

\* the handler returns; nothing of the invocation is kept
HttpReturn ==
    /\ http.pc = "done"
    /\ http' = HttpIdle
    /\ UNCHANGED <<ws_vars, parser>>

NextHttp ==
    \/ SendRestRequest
    \/ SendGraphqlRequest
    \/ HttpResponse
    \/ HttpTransportError
    \/ HttpReturn

SpecHttp == Init /\ [][NextHttp]_vars

(* ============================ properties =============================== *)
\* connections that are open, and receive loops that have not ended
OpenConns == {c \in ConnIds : conn_state[c] = "open"}
LiveLoops == {t \in ConnIds : task_state[t] \in {"created", "running", "cancelled"}}

\* C1: at any time at most one WebSocket connection is open and at most one
\* receive loop is running.
C1_SingleSession ==
    /\ Cardinality(OpenConns) <= 1
    /\ Cardinality(LiveLoops) <= 1

\* the window between a Disconnect's close request and the teardown of the
\* receive task it cancels
DisconnectWindow ==
    \/ pc = "closing"
    \/ ws_receiver # None /\ task_state[ws_receiver] = "cancelled"

\* C2: the connection handle is present if and only if the receive task
\* reference is present, except in the window between a Disconnect's close
\* request and the teardown of the receive task.
C2_HandlesPaired ==
    (ws_connection = None) # (ws_receiver = None) => DisconnectWindow

\* C2 witness: a Disconnect has cleared the handle and cancelled the loop,
\* whose teardown has not run yet
C2_Witness ==
    /\ ws_connection = None
    /\ ws_receiver # None
    /\ task_state[ws_receiver] = "cancelled"
    /\ h_op = "disconnect"

\* the last line of the WebSocket log carries this tag
LastLog(tag) == log # <<>> /\ log[Len(log)].tag = tag

\* this step takes the event ev off the queue and runs its handler
Invoked(ev) == Dispatching(ev) /\ pending' = Tail(pending)

\* this step rejects the operation invoked: one report, nothing else changes
Rejected(tag) ==
    /\ log' = Append(log, Line(tag, <<>>))
    /\ pc' = "idle"
    /\ UNCHANGED <<ws_connection, ws_receiver, conn_state, task_state, wire_out>>

\* C3 (as claimed): for every URL and header text, a Connect invoked while
\* the session is not Disconnected is rejected with the "already connected"
\* report, starts no handshake and leaves handle and receive task unchanged.
C3_AlwaysAlreadyConnected ==
    [][Invoked("ws_connect") /\ ws_connection # None => Rejected("already")]_vars

\* C3 (amended): a Connect invoked while a connection handle is held is
\* rejected without a handshake and without a change to handle or receive
\* task; the report is "already connected" when the URL is non-empty after
\* trimming, and the missing-URL report when it is empty.
C3_ConnectWhileConnected ==
    [][Invoked("ws_connect") /\ ws_connection # None =>
         IF h_url' # <<>> THEN Rejected("already") ELSE Rejected("no_url")]_vars

\* C3 witness: a Connect was rejected as already connected, session intact
C3_Witness ==
    /\ h_op = "connect"
    /\ LastLog("already")
    /\ ws_connection # None
    /\ ws_receiver = ws_connection
    /\ pc = "idle"

\* C4: no exception propagates out of Connect, SendMessage, Disconnect or
\* Shutdown, whichever network call fails.
C4_NothingEscapes == escaped = FALSE

\* C5: a Disconnect invoked while a handle is present always performs the
\* full teardown, whether close() returns or raises: the handle is cleared,
\* no receive loop is left active (it is cancelled if there was one), and
\* the "disconnected" log event is emitted.
C5_UnconditionalTeardown ==
    [][pc = "closing" /\ pc' # "closing" =>
         /\ ws_connection' = None
         /\ \A t \in ConnIds : task_state'[t] \notin {"created", "running"}
         /\ log' = Append(log, Line("disconnected", <<>>))]_vars

\* C5 witness: close() raised, and the teardown was done all the same
C5_Witness ==
    /\ escaped
    /\ ws_connection = None
    /\ LastLog("disconnected")
    /\ \E t \in ConnIds : task_state[t] = "cancelled"

\* C6: when the remote end closes the connection (a clean close included),
\* the receive loop emits a log event carrying the close code and clears
\* both the connection handle and the receive task reference.
C6_RemoteCloseLogged ==
    [][\A t \in ConnIds :
         (/\ task_state[t] = "running"
          /\ task_state'[t] = "done"
          /\ conn_state[rx_conn[t]] = "remote_closed")
         => /\ log' = Append(log, Line("closed", <<close_code[rx_conn[t]]>>))
            /\ ws_connection' = None
            /\ ws_receiver' = None]_vars

\* C7: SendMessage is rejected with "not connected" when no connection is
\* held and with "empty message" when the text is empty; a rejection writes
\* nothing to the network, logs no "sent" event and leaves handle and
\* receive task unchanged; any other SendMessage goes on to the write.
C7_SendRejections ==
    [][Invoked("ws_send") =>
         IF ws_connection = None THEN Rejected("not_connected")
         ELSE IF h_msg' = <<>> THEN Rejected("empty_msg")
         ELSE pc' = "sending" /\ log' = log]_vars

\* C7 witness: an empty message was rejected on a connected session
C7_Witness ==
    /\ h_op = "send"
    /\ LastLog("empty_msg")
    /\ ws_connection # None
    /\ wire_out = <<>>

\* C8: when the write of SendMessage fails, an error-tagged log event is
\* emitted, no "sent" event, and SendMessage leaves the connection handle
\* and the receive task reference as they are.
C8_SendFailureKeepsSession ==
    [][pc = "sending" /\ pc' = "idle" /\ wire_out' = wire_out =>
         /\ log' = Append(log, Line("send_error", <<>>))
         /\ UNCHANGED <<ws_connection, ws_receiver, task_state, conn_state>>]_vars

\* C8 witness: a send failed and the session is still held
C8_Witness ==
    /\ h_op = "send"
    /\ LastLog("send_error")
    /\ ws_connection # None
    /\ ws_receiver = ws_connection
    /\ task_state[ws_receiver] = "running"

\* C9: every REST or GraphQL invocation, on every path, produces exactly
\* one outcome: one Request Result or one Operation Error, never none and
\* never both (and none before the invocation has ended).
C9_ExactlyOneOutcome ==
    IF http.pc = "done"
    THEN http.results + Len(http.errors) = 1
    ELSE http.results = 0 /\ http.errors = <<>>

\* C9 witness: a request was issued and ended in a transport error
C9_Witness ==
    /\ http.pc = "done"
    /\ http.requests = 1
    /\ http.results = 0
    /\ Len(http.errors) = 1
    /\ http.errors[1].tag = "transport"

\* the first check to fail in the order URL, (GraphQL) query, header block,
\* (GraphQL) variables; "none" when every check passes
FirstFailingCheck(call) ==
    IF call.url = <<>> THEN "no_url"
    ELSE IF call.kind = "graphql" /\ call.query = <<>> THEN "no_query"
    ELSE IF ~parse_headers(call.headers_raw).ok THEN "hdr_error"
    ELSE IF /\ call.kind = "graphql"
            /\ Strip(call.variables_raw) # <<>>
            /\ ~JsonLoads(call.variables_raw).ok
    THEN "json_error"
    ELSE "none"

\* C10: REST and GraphQL validate in the order URL non-empty, (GraphQL)
\* query non-empty, header block parses, (GraphQL) variables parse as JSON;
\* the error reported is that of the first failing check, and when a check
\* fails no network request is issued.
C10_ValidationOrder ==
    http.pc # "idle" /\ FirstFailingCheck(http) # "none" =>
        /\ http.pc = "done"
        /\ http.requests = 0
        /\ http.results = 0
        /\ http.errors = <<ErrorLine(FirstFailingCheck(http), http.headers_raw)>>

\* C10 witness: a GraphQL call whose header block and variables are both
\* malformed reported the header error
C10_Witness ==
    /\ http.kind = "graphql"
    /\ http.pc = "done"
    /\ ~parse_headers(http.headers_raw).ok
    /\ Strip(http.variables_raw) # <<>>
    /\ ~JsonLoads(http.variables_raw).ok
    /\ http.errors = <<Line("hdr_error", parse_headers(http.headers_raw).line)>>
    /\ http.requests = 0

\* a GraphQL invocation that is past its checks, or ended
GraphqlCalled == http.kind = "graphql" /\ http.pc \in {"awaiting", "done"}

\* the URL, the query and the header block of the invocation are valid
GraphqlFormValid ==
    /\ http.url # <<>>
    /\ http.query # <<>>
    /\ parse_headers(http.headers_raw).ok

\* C11: a GraphQL invocation whose variables text is empty or whitespace
\* only (URL, query and headers valid) raises no decode error, and its
\* outgoing payload holds the query key and no variables key.
C11_BlankVariablesOmitted ==
    GraphqlCalled /\ GraphqlFormValid /\ Strip(http.variables_raw) = <<>> =>
        /\ http.requests = 1
        /\ \A i \in 1 .. Len(http.errors) : http.errors[i].tag # "json_error"
        /\ DOMAIN http.payload = {"query"}
        /\ http.payload["query"] = http.query

\* C11 witness: a request went out for a whitespace-only variables text
C11_Witness ==
    /\ GraphqlCalled
    /\ http.variables_raw = <<" ">>
    /\ http.requests = 1
    /\ DOMAIN http.payload = {"query"}

(* ----------------------- parse_headers on its own ---------------------- *)
\* the header blocks handed to parse_headers
HeaderBlocks == TextsUpTo({"a", " ", ":", "\n"}, MaxBlockLen)

\* a caller is about to call parse_headers(raw), for any header block
InitParse ==
    /\ InitWs
    /\ http = HttpIdle
    /\ parser \in {[ParserIdle EXCEPT !.pc = "called", !.raw = raw] :
                      raw \in HeaderBlocks}

\* parse_headers returns its dictionary
ParseReturns ==
    /\ parser.pc = "called"
    /\ parse_headers(parser.raw).ok
    /\ parser' = [parser EXCEPT !.pc = "returned",
                                !.headers = parse_headers(parser.raw).headers]
    /\ UNCHANGED <<ws_vars, http>>

\* parse_headers raises ValueError: the caller gets the message, no value
ParseRaises ==
    /\ parser.pc = "called"
    /\ ~parse_headers(parser.raw).ok
    /\ parser' = [parser EXCEPT !.pc = "raised", !.ok = FALSE,
                                !.headers = parse_headers(parser.raw).headers,
                                !.line = parse_headers(parser.raw).line]
    /\ UNCHANGED <<ws_vars, http>>

NextParse ==
    \/ ParseReturns
    \/ ParseRaises

SpecParse == InitParse /\ [][NextParse]_vars

\* the lines of the block parsed, and those that are not blank
BlockLines == SplitLines(parser.raw)
NonBlank == {i \in 1 .. Len(BlockLines) :
                \E j \in 1 .. Len(BlockLines[i]) : BlockLines[i][j] \notin Whitespace}
HasColon(line) == \E j \in 1 .. Len(line) : line[j] = ":"
FirstColon(line) ==
    CHOOSE j \in 1 .. Len(line) :
        line[j] = ":" /\ \A k \in 1 .. j - 1 : line[k] # ":"
KeyOf(line) == Strip(SubSeq(line, 1, FirstColon(line) - 1))
ValueOf(line) == Strip(SubSeq(line, FirstColon(line) + 1, Len(line)))
\* the last non-blank line that carries key
LastWith(key) ==
    CHOOSE i \in NonBlank :
        /\ KeyOf(BlockLines[i]) = key
        /\ \A j \in NonBlank : KeyOf(BlockLines[j]) = key => j <= i
\* the mapping the parse is to return for a block whose lines all have a colon
ExpectedHeaders ==
    [key \in {KeyOf(BlockLines[i]) : i \in NonBlank} |->
        ValueOf(BlockLines[LastWith(key)])]
Trimmed(text) ==
    text = <<>> \/ (text[1] \notin Whitespace /\ text[Len(text)] \notin Whitespace)

\* C12: for a header text whose non-blank lines all contain a colon, parse
\* returns the mapping got by skipping blank lines, splitting each other
\* line at its first colon only, trimming both sides and letting a later
\* line with the same key overwrite; no key or value has leading or
\* trailing whitespace.
C12_ParseMapping ==
    parser.pc \in {"returned", "raised"}
    /\ (\A i \in NonBlank : HasColon(BlockLines[i])) =>
        /\ parser.pc = "returned"
        /\ parser.headers = ExpectedHeaders
        /\ \A key \in DOMAIN parser.headers :
              Trimmed(key) /\ Trimmed(parser.headers[key])

\* C12 witness: two lines with the same key, the later value (which itself
\* holds a colon) is the one returned
C12_Witness ==
    /\ parser.pc = "returned"
    /\ parser.raw = <<":", "\n", ":", ":">>
    /\ parser.headers = [key \in {<<>>} |-> <<":">>]

\* the first non-blank line without a colon
FirstBadLine ==
    BlockLines[CHOOSE i \in NonBlank :
                  /\ ~HasColon(BlockLines[i])
                  /\ \A j \in NonBlank : ~HasColon(BlockLines[j]) => i <= j]

\* C13: for a header text with a non-blank line that has no colon, parse
\* fails with an error citing verbatim the first such line, and returns no
\* partial header set.
C13_ParseError ==
    parser.pc \in {"returned", "raised"}
    /\ (\E i \in NonBlank : ~HasColon(BlockLines[i])) =>
        /\ parser.pc = "raised"
        /\ ~parser.ok
        /\ parser.line = FirstBadLine
        /\ parser.headers = EmptyHeaders

\* C13 witness: a valid line, then an offending line cited with its
\* leading blank
C13_Witness ==
    /\ parser.pc = "raised"
    /\ parser.raw = <<":", "\n", " ", "a">>
    /\ parser.line = <<" ", "a">>
    /\ parser.headers = EmptyHeaders

C15_DisconnectIdempotent ==
    [][Invoked("ws_disconnect") /\ ws_connection = None =>
         /\ Rejected("no_active")
         /\ UNCHANGED <<close_code, rx_conn, status, escaped>>]_vars

\* C15 witness: Disconnect was pressed twice with no session
C15_Witness ==
    /\ h_op = "disconnect"
    /\ pc = "idle"
    /\ Len(log) = 2
    /\ log[1].tag = "no_active"
    /\ log[2].tag = "no_active"
    /\ ws_connection = None
    /\ ws_receiver = None

\* neither a connection handle nor a receive task reference is held
TornDown == ws_connection = None /\ ws_receiver = None

\* a teardown has begun: a Disconnect is closing the connection, the
\* connection held was closed, or a receive task was cancelled
TeardownBegun ==
    \/ pc = "closing"
    \/ ws_connection # None /\ Closed(ws_connection)
    \/ \E t \in ConnIds : task_state[t] = "cancelled"

\* C16: teardown converges from either side: after an explicit Disconnect
\* on a connected session, a remote close or a receive error, the session
\* eventually holds neither handle nor task reference (the receive task
\* being scheduled fairly), and it stays so until the next successful
\* Connect.
C16_TeardownConverges ==
    /\ TeardownBegun ~> TornDown
    /\ [][(\E t \in ConnIds : task_state[t] # "done" /\ task_state'[t] = "done")
            => TornDown']_vars
    /\ [][TornDown => TornDown' \/ (pc = "connecting" /\ ws_connection' # None)]_vars

\* C16 witness: a Disconnect on a connected session has converged
C16_Witness ==
    /\ TornDown
    /\ h_op = "disconnect"
    /\ LastLog("disconnected")
    /\ \E t \in ConnIds :
          task_state[t] = "done" /\ conn_state[t] = "local_closed"

\* the error-tagged events of the receive loop in a log
RxErrors(l) == SelectSeq(l, LAMBDA e : e.tag = "rx_error")

\* C17: a receive loop that ends because its in-flight receive was
\* cancelled by a Disconnect writes nothing to the log, and a receive loop
\* that ends on a receive error other than a connection close writes
\* exactly one error-tagged event.
C17_CancelIsNotAnError ==
    [][\A t \in ConnIds :
         /\ task_state[t] = "cancelled" /\ task_state'[t] = "done"
               => log' = log
         /\ (/\ task_state[t] # "done" /\ task_state'[t] = "done"
             /\ Closed(rx_conn[t]) /\ conn_state[rx_conn[t]] = "local_closed")
               => RxErrors(log') = RxErrors(log)
         /\ (/\ task_state[t] = "running" /\ task_state'[t] = "done"
             /\ conn_state[rx_conn[t]] = "open")
               => /\ log' = Append(log, Line("rx_error", <<>>))
                  /\ Len(RxErrors(log')) = Len(RxErrors(log)) + 1]_vars

\* C17 witness: the first loop was ended by a Disconnect, the second one by
\* a receive error, and the log holds one error-tagged event
C17_Witness ==
    /\ conn_state[1] = "local_closed" /\ task_state[1] = "done"
    /\ conn_state[2] = "open" /\ task_state[2] = "done" /\ rx_conn[2] = 2
    /\ LastLog("rx_error")
    /\ Len(RxErrors(log)) = 1

\* the texts of the log events with a tag, in log order
LogTexts(tag) ==
    LET lines == SelectSeq(log, LAMBDA e : e.tag = tag)
    IN  [i \in 1 .. Len(lines) |-> lines[i].text]

\* the messages the transport delivered on connection c, in wire order
Delivered(c) ==
    LET msgs == SelectSeq(recvd, LAMBDA d : d.conn = c)
    IN  [i \in 1 .. Len(msgs) |-> msgs[i].text]

\* s is the end of t
IsSuffix(s, t) ==
    /\ Len(s) <= Len(t)
    /\ SubSeq(t, Len(t) - Len(s) + 1, Len(t)) = s

\* C18: the log keeps the order of each direction: the "received" events
\* in the log are the last messages the transport delivered on one
\* connection, in wire order, each delivery adding one event at the end of
\* the log; the "sent" events are the last messages written to the wire, in
\* the order of the SendMessage calls, each successful call adding one event.
C18_LogOrder ==
    /\ [](\E c \in ConnIds : IsSuffix(LogTexts("received"), Delivered(c)))
    /\ [](IsSuffix(LogTexts("sent"), wire_out))
    /\ [][recvd' # recvd =>
            /\ Len(recvd') = Len(recvd) + 1
            /\ SubSeq(recvd', 1, Len(recvd)) = recvd
            /\ log' = Append(log, Line("received", recvd'[Len(recvd')].text))]_vars
    /\ [][wire_out' # wire_out =>
            /\ pc = "sending"
            /\ wire_out' = Append(wire_out, h_msg)
            /\ log' = Append(log, Line("sent", h_msg))]_vars

\* C18 witness: two different messages went out and two different messages
\* came in on one connection
C18_Witness ==
    /\ LogTexts("received") = <<<<"b">>, <<"a">>>>
    /\ LogTexts("sent") = <<<<"a">>, <<" ">>>>
    /\ Delivered(1) = <<<<"b">>, <<"a">>>>

\* C19: the teardown step of a receive loop clears only the handle and the
\* task reference of the connection the loop was started for: when it
\* runs, the handle held is that connection's or none and the task
\* reference is that loop's or none, so the late teardown of a cancelled
\* loop never clears a newer connection's handle or task reference.
C19_TeardownClearsOwn ==
    [][\A t \in ConnIds :
         task_state[t] \in {"running", "cancelled"} /\ task_state'[t] = "done"
           => /\ ws_connection \in {None, rx_conn[t]}
              /\ ws_receiver \in {None, t}
              /\ \A u \in ConnIds \ {t} : task_state[u] \in {"none", "done"}]_vars

\* C19 witness: after a Disconnect and the end of the first loop, a second
\* Connect succeeded and its handle and task reference are held
C19_Witness ==
    /\ conn_state[1] = "local_closed"
    /\ rx_conn[1] = 1 /\ task_state[1] = "done"
    /\ ws_connection = 2 /\ ws_receiver = 2
    /\ conn_state[2] = "open" /\ task_state[2] = "running"

\* a new Connect is in flight while the loop cancelled by the Disconnect
\* before it has not run its teardown yet
C19_LateTeardownPending ==
    /\ pc = "connecting"
    /\ \E t \in ConnIds : task_state[t] = "cancelled" /\ ws_receiver = t

\* the variables text of the invocation is not blank and json.loads
\* accepts it
VariablesSupplied ==
    /\ Strip(http.variables_raw) # <<>>
    /\ JsonLoads(http.variables_raw).ok

\* C20: a GraphQL invocation whose variables text is non-empty after
\* trimming and parses as JSON (URL, query and headers valid) sends a
\* payload with a variables key holding the parsed value, the JSON literal
\* null included.
C20_VariablesKeyPresent ==
    GraphqlCalled /\ GraphqlFormValid /\ VariablesSupplied =>
        /\ "variables" \in DOMAIN http.payload
        /\ http.payload["variables"] = JsonLoads(http.variables_raw).value

\* the same for every parsed value but null: the key is there with the value
C20_NonNullVariablesSent ==
    (/\ GraphqlCalled /\ GraphqlFormValid /\ VariablesSupplied
     /\ JsonLoads(http.variables_raw).value # JsonNone) =>
        /\ DOMAIN http.payload = {"query", "variables"}
        /\ http.payload["variables"] = JsonLoads(http.variables_raw).value

\* a request went out for the variables text null, with no variables key
C20_NullOmitted ==
    /\ GraphqlCalled /\ GraphqlFormValid
    /\ http.variables_raw = <<"null">>
    /\ http.requests = 1
    /\ DOMAIN http.payload = {"query"}

====
